---- MODULE Spec2Model ----
(***************************************************************************)
(* Agent lifecycle controller, decision cycle, rule-based strategy, mocked *)
(* swap executor and in-memory wallet ledger of solana-agentic-wallet.     *)
(*                                                                         *)
(* Every async method is cut at its await points: the code between two     *)
(* awaits is one atomic action, and any other action may run in between.   *)
(* Amounts are in micro-SOL (1 SOL = 1000000), prices in whole units.      *)
(***************************************************************************)
EXTENDS Integers, Sequences, FiniteSets, TLC

VARIABLES
    agents,             \* AgentController.agents: id -> Agent
    activeAgentIds,     \* AgentController.activeAgentIds, in insertion order
    decisionIntervals,  \* ids that have a registered setInterval handle
    wallets,            \* WalletManager.wallets: key -> WalletInfo object
    nextId,             \* number of agents (and wallets) created so far
    cycles,             \* executeDecisionCycle activations that are awaiting
    deleting,           \* deleteAgent calls awaiting their stopAgent
    stopAll,            \* the stopAllAgents call in progress, if any
    appended,           \* per agent: every activity ever pushed by logActivity
    evals,              \* per agent: the last two strategy evaluations
    trader,             \* a SimpleTraderStrategy instance that is kept alive
    modal,              \* the PrivateKeyModal component
    market              \* a MarketDataGenerator and the last tick it emitted

\* the state outside the controller and the wallet ledger
outside == << trader, modal, market >>

\* the controller, the wallet ledger and their histories
inside == << agents, activeAgentIds, decisionIntervals, wallets, nextId,
             cycles, deleting, stopAll, appended, evals >>

vars == << agents, activeAgentIds, decisionIntervals, wallets, nextId, cycles,
           deleting, stopAll, appended, evals, trader, modal, market >>

(***************************************************************************)
(* Bounds of the model.                                                    *)
(***************************************************************************)
MaxAgents == 2
MaxAgentsStopAll == 3
MaxInFlight == 2
MaxInFlightTrade == 1
MaxAppended == 4
MaxAppendedStopAll == 3
MaxAppendedTrade == 4
MaxAgentsFailure == 2
MaxAppendedFailure == 3
MaxAppendedLog == 103
MaxAgentsLifecycle == 1
MaxAppendedLifecycle == 5
MaxRetrievals == 2
MaxAppendedCycle == 4
MaxTicks == 10
MaxAppendedLive == 5

(***************************************************************************)
(* Program constants.                                                      *)
(***************************************************************************)
MaxLogEntries == 100
DefaultBuyThreshold == 90
DefaultSellThreshold == 110
DefaultMinBalance == 100000
MaxBuyAmount == 500000
SellAmount == 100000
DefaultTradeAmount == 100000

Absent == -1

\* useState<string | null>(null): no private key held
NoKey == 0

\* the wallets whose private key the modal is opened for
ModalKeys == {1, 2}

Prices == {85, 100, 115}
ChainBalances == {0, 1000000}

\* prices and balances given to a strategy instance: at and on both sides of
\* the thresholds, of minBalance and of the balance whose tenth is 0.5 SOL
EvaluatedPrices == {85, 90, 100, 110, 115}
EvaluatedBalances == {0, 50000, 100000, 1000000, 6000000}
ChainTokens == {<<>>, <<"TOKEN">>}

\* values of Math.random(), in tenths: the least, the middle, the greatest
Randoms == {0, 5, 9}

\* arguments of setVolatility, in percent
Volatilities == {100, 200}

DefaultParameters ==
    [buyThreshold |-> 90, sellThreshold |-> 110, minBalance |-> 100000]

InvertedParameters ==
    [buyThreshold |-> 110, sellThreshold |-> 90, minBalance |-> 100000]

\* accepted by the creation form: minBalance 0
ZeroMinBalanceParameters ==
    [buyThreshold |-> 90, sellThreshold |-> 110, minBalance |-> 0]

StrategyConfigs ==
    {DefaultParameters, InvertedParameters, ZeroMinBalanceParameters}

(***************************************************************************)
(* Sequence helpers.                                                       *)
(***************************************************************************)
Range(s) == {s[i] : i \in 1..Len(s)}

Without(s, x) == SelectSeq(s, LAMBDA y : y # x)

SetAdd(s, x) == IF x \in Range(s) THEN s ELSE Append(s, x)

LastN(s, n) == IF Len(s) > n THEN SubSeq(s, Len(s) - n + 1, Len(s)) ELSE s

Min(a, b) == IF a < b THEN a ELSE b

(***************************************************************************)
(* Activities and the bounded activity log.                                *)
(***************************************************************************)
\* timestamp: the number of the append stands for new Date();
\* transactionSignature: whether the activity carries a signature
ActivityAt(history, a, action, result, hasSignature) ==
    [timestamp |-> IF a \in DOMAIN history THEN Len(history[a]) + 1 ELSE 1,
     action |-> action, result |-> result, transactionSignature |-> hasSignature]

Activity(a, action, result, hasSignature) ==
    ActivityAt(appended, a, action, result, hasSignature)

\* a cap that keeps the oldest entries instead: slice(0, 100)
PushCappedKeepOldest(log, activity) ==
    IF Len(log) >= MaxLogEntries THEN log ELSE Append(log, activity)

\* activityLog.push(activity), then keep only the last 100
PushCapped(log, activity) == LastN(Append(log, activity), MaxLogEntries)

\* a log that takes entries for active agents only
logActivityIfActive(registry, agentId, activity) ==
    IF agentId \in DOMAIN registry /\ registry[agentId].status = "active"
    THEN [registry EXCEPT ![agentId].activityLog = PushCapped(@, activity)]
    ELSE registry

logActivity(registry, agentId, activity) ==
    IF agentId \in DOMAIN registry
    THEN [registry EXCEPT ![agentId].activityLog = PushCapped(@, activity)]
    ELSE registry

\* the history of pushes that goes with logActivity
recordAppend(registry, agentId, activity) ==
    IF agentId \in DOMAIN registry
    THEN [appended EXCEPT ![agentId] = Append(@, activity)]
    ELSE appended

(***************************************************************************)
(* SimpleTraderStrategy.                                                   *)
(***************************************************************************)
OrDefault(v, d) == IF v = Absent \/ v = 0 THEN d ELSE v

\* new SimpleTraderStrategy(parameters)
SimpleTraderStrategy(parameters) ==
    [buyThreshold |-> OrDefault(parameters.buyThreshold, DefaultBuyThreshold),
     sellThreshold |-> OrDefault(parameters.sellThreshold, DefaultSellThreshold),
     minBalance |-> OrDefault(parameters.minBalance, DefaultMinBalance),
     lastAction |-> "wait"]

createStrategyInstance(strategyConfig) == SimpleTraderStrategy(strategyConfig)

\* an evaluate that tests the sell threshold before the buy threshold
evaluateSellFirst(strategy, price, walletBalance) ==
    IF walletBalance < strategy.minBalance
    THEN [type |-> "wait", action |-> "none", amount |-> 0,
          reason |-> "Insufficient balance",
          lastAction |-> strategy.lastAction]
    ELSE IF price > strategy.sellThreshold /\ strategy.lastAction # "sell"
    THEN [type |-> "trade", action |-> "sell", amount |-> SellAmount,
          reason |-> "above sell threshold", lastAction |-> "sell"]
    ELSE IF price < strategy.buyThreshold /\ strategy.lastAction # "buy"
    THEN [type |-> "trade", action |-> "buy",
          amount |-> Min(walletBalance \div 10, MaxBuyAmount),
          reason |-> "below buy threshold", lastAction |-> "buy"]
    ELSE [type |-> "wait", action |-> "none", amount |-> 0,
          reason |-> "within normal range",
          lastAction |-> strategy.lastAction]

\* evaluate(conditions, walletBalance): the action and the instance afterwards
evaluate(strategy, price, walletBalance) ==
    IF walletBalance < strategy.minBalance
    THEN [type |-> "wait", action |-> "none", amount |-> 0,
          reason |-> "Insufficient balance",
          lastAction |-> strategy.lastAction]
    ELSE IF price < strategy.buyThreshold /\ strategy.lastAction # "buy"
    THEN [type |-> "trade", action |-> "buy",
          amount |-> Min(walletBalance \div 10, MaxBuyAmount),
          reason |-> "below buy threshold", lastAction |-> "buy"]
    ELSE IF price > strategy.sellThreshold /\ strategy.lastAction # "sell"
    THEN [type |-> "trade", action |-> "sell", amount |-> SellAmount,
          reason |-> "above sell threshold", lastAction |-> "sell"]
    ELSE [type |-> "wait", action |-> "none", amount |-> 0,
          reason |-> "within normal range",
          lastAction |-> strategy.lastAction]

(***************************************************************************)
(* WalletManager.                                                          *)
(***************************************************************************)
\* a wallet that is created with an airdrop already credited
NewWalletAirdropped ==
    [present |-> TRUE, balance |-> 1000000, tokenBalances |-> <<>>]

\* createWallet: the WalletInfo stored under the generated public key
NewWallet == [present |-> TRUE, balance |-> 0, tokenBalances |-> <<>>]

hasWallet(ledger, publicKey) ==
    publicKey \in DOMAIN ledger /\ ledger[publicKey].present

updateBalance(ledger, publicKey, balance) ==
    IF hasWallet(ledger, publicKey)
    THEN [ledger EXCEPT ![publicKey].balance = balance]
    ELSE ledger

updateTokenBalances(ledger, publicKey, tokenBalances) ==
    IF hasWallet(ledger, publicKey)
    THEN [ledger EXCEPT ![publicKey].tokenBalances = tokenBalances]
    ELSE ledger

(***************************************************************************)
(* DeFiClient.                                                             *)
(***************************************************************************)
\* wallet?.balance || 0 on the object fetched by getWallet
getWalletBalance(ledger, publicKey, found) ==
    IF found THEN ledger[publicKey].balance ELSE 0

validateAccounts(ledger, publicKey, found, fromToken, amount) ==
    IF ~found THEN FALSE
    ELSE IF fromToken = "SOL" /\ ledger[publicKey].balance < amount THEN FALSE
    ELSE TRUE

updateBalancesAfterSwap(ledger, publicKey, fromToken, amount, balanceBefore) ==
    IF fromToken = "SOL"
    THEN updateBalance(ledger, publicKey, balanceBefore - amount)
    ELSE ledger

\* a settlement that updates the balances before the blockhash is known
settleSwapEarly(ledger, publicKey, fromToken, amount, balanceBefore, blockhashOk) ==
    updateBalancesAfterSwap(ledger, publicKey, fromToken, amount, balanceBefore)

\* the tail of executeSwap once getLatestBlockhash has resolved or failed
settleSwap(ledger, publicKey, fromToken, amount, balanceBefore, blockhashOk) ==
    IF blockhashOk
    THEN updateBalancesAfterSwap(ledger, publicKey, fromToken, amount,
                                 balanceBefore)
    ELSE ledger

(***************************************************************************)
(* MarketDataGenerator.  currentPrice is in thousandths, the price of a    *)
(* tick in hundredths, volatility and trendStrength in percent, a price    *)
(* change in thousandths of the price.                                     *)
(***************************************************************************)
BasePrice == 100000
TrendStrength == 2
LowestPrice == 50000
HighestPrice == 150000

Max(a, b) == IF a > b THEN a ELSE b

\* a price that is bounded from above only
ClampedAbove(price) == Min(HighestPrice, price)

\* Math.max(50, Math.min(150, price))
Clamped(price) == Max(LowestPrice, Min(HighestPrice, price))

\* Math.round(price * 100) / 100, in hundredths
Rounded(price) == (price + 5) \div 10

\* updateTrend: the trend and the duration drawn from two random numbers
updateTrend(generator, randTrend, randDuration) ==
    [generator EXCEPT
        !.currentTrend = IF randTrend * 10 < 33 THEN "up"
                         ELSE IF randTrend * 10 < 66 THEN "down"
                         ELSE "sideways",
        !.maxTrendDuration = (randDuration * 10) \div 10 + 5]

priceChange(generator, rand) ==
    CASE generator.currentTrend = "up" ->
             TrendStrength * 10 + rand * generator.volatility
      [] generator.currentTrend = "down" ->
             0 - TrendStrength * 10 - rand * generator.volatility
      [] generator.currentTrend = "sideways" ->
             (rand - 5) * generator.volatility * 2

\* generateNext: the generator afterwards, with the tick it returned
generateNext(generator, randTrend, randDuration, rand, randVolume) ==
    LET trended ==
            IF generator.trendDuration + 1 >= generator.maxTrendDuration
            THEN [updateTrend(generator, randTrend, randDuration)
                     EXCEPT !.trendDuration = 0]
            ELSE [generator EXCEPT !.trendDuration = @ + 1]
        price ==
            Clamped((trended.currentPrice
                       * (1000 + priceChange(trended, rand))) \div 1000)
    IN  [trended EXCEPT
            !.currentPrice = price,
            !.tick = << [price |-> Rounded(price),
                         volume |-> (randVolume * 9000) \div 10 + 1000,
                         trend |-> trended.currentTrend] >>]

NewGenerator ==
    [currentPrice |-> BasePrice, currentTrend |-> "sideways",
     trendDuration |-> 0, maxTrendDuration |-> 10, volatility |-> 5,
     calls |-> 0, tick |-> <<>>]

\* market.calls counts the calls of generateNext
GenerateNext(randTrend, randDuration, rand, randVolume) ==
    /\ market' = [generateNext(market, randTrend, randDuration, rand,
                               randVolume) EXCEPT !.calls = @ + 1]
    /\ UNCHANGED << inside, trader, modal >>

setVolatility(volatility) ==
    /\ market' = [market EXCEPT !.volatility = Max(0, Min(100, volatility))]
    /\ UNCHANGED << inside, trader, modal >>

reset ==
    /\ market' = [market EXCEPT !.currentPrice = BasePrice,
                                !.currentTrend = "sideways",
                                !.trendDuration = 0]
    /\ UNCHANGED << inside, trader, modal >>

(***************************************************************************)
(* Initial state: the freshly constructed singletons.                      *)
(***************************************************************************)
Init ==
    /\ agents = <<>>
    /\ activeAgentIds = <<>>
    /\ decisionIntervals = {}
    /\ wallets = <<>>
    /\ nextId = 0
    /\ cycles = {}
    /\ deleting = {}
    /\ stopAll = [pc |-> "idle", ids |-> <<>>]
    /\ appended = <<>>
    /\ evals = <<>>
    /\ trader = [instance |-> <<>>, last |-> <<>>, trades |-> <<>>]
    /\ modal = [visible |-> FALSE, publicKey |-> 1, privateKey |-> NoKey,
                confirmed |-> FALSE, retrieving |-> <<>>, clipboard |-> NoKey,
                pressed |-> FALSE]
    /\ market = NewGenerator

Ids == 1..nextId

InFlight(agentId) == {c \in cycles : c.agent = agentId}

FreeSlot(agentId) ==
    CHOOSE k \in 1..(Cardinality(InFlight(agentId)) + 1) :
        \A c \in InFlight(agentId) : c.slot # k

(***************************************************************************)
(* AgentController.createAgent                                             *)
(***************************************************************************)
\* The agent id (timestamp and random suffix) and the public key (generated
\* keypair) are fresh values, numbered in the order of creation.  The new
\* wallet is known to no other caller before createAgent returns, so the
\* await of createWallet is not a cut point.
\* a createWallet that registers the wallet before the key is stored
createWalletBeforeStore(ledger, publicKey, stored) ==
    [error |-> IF stored THEN "none" ELSE "Failed to store key",
     wallets |-> ledger @@ (publicKey :> NewWallet)]

\* WalletManager.createWallet: the ledger afterwards and the error thrown;
\* stored tells whether keyStore.storeKey accepted the key
createWallet(ledger, publicKey, stored) ==
    IF stored
    THEN [error |-> "none", wallets |-> ledger @@ (publicKey :> NewWallet)]
    ELSE [error |-> "Failed to store key", wallets |-> ledger]

\* createAgent(strategy) called in the current state: the registry, the
\* ledger and the histories afterwards, and the error thrown
createAgent(parameters, stored) ==
    LET agentId == nextId + 1
        publicKey == nextId + 1
        agent == [id |-> agentId, walletPublicKey |-> publicKey,
                  strategy |-> parameters, status |-> "stopped",
                  activityLog |-> <<>>]
        created == [timestamp |-> 1, action |-> "created",
                    result |-> "success", transactionSignature |-> FALSE]
        wallet == createWallet(wallets, publicKey, stored)
    IN  IF wallet.error # "none"
        THEN [error |-> wallet.error, nextId |-> nextId,
              wallets |-> wallet.wallets, agents |-> agents,
              appended |-> appended, evals |-> evals,
              activeAgentIds |-> activeAgentIds,
              decisionIntervals |-> decisionIntervals]
        ELSE [error |-> "none", nextId |-> nextId + 1,
              wallets |-> wallet.wallets,
              agents |-> logActivity(agents @@ (agentId :> agent), agentId,
                                     created),
              appended |-> appended @@ (agentId :> <<created>>),
              evals |-> evals @@ (agentId :> <<>>),
              activeAgentIds |-> activeAgentIds,
              decisionIntervals |-> decisionIntervals]

\* createAgent with a key store that accepts or rejects the key
CreateAgent(parameters) ==
    \E stored \in BOOLEAN :
        /\ nextId' = createAgent(parameters, stored).nextId
        /\ wallets' = createAgent(parameters, stored).wallets
        /\ agents' = createAgent(parameters, stored).agents
        /\ appended' = createAgent(parameters, stored).appended
        /\ evals' = createAgent(parameters, stored).evals
        /\ activeAgentIds' = createAgent(parameters, stored).activeAgentIds
        /\ decisionIntervals' =
              createAgent(parameters, stored).decisionIntervals
        /\ UNCHANGED << cycles, deleting, stopAll, outside >>

\* AgentCreationModal.handleCreate: the form validates, then calls createAgent
handleCreate(parameters) ==
    /\ parameters.buyThreshold < parameters.sellThreshold
    /\ parameters.minBalance >= 0
    /\ CreateAgent(parameters)

(***************************************************************************)
(* executeDecisionCycle up to its first await (walletManager.getWallet).   *)
(***************************************************************************)
NewCycle(registry, agentId) ==
    [agent |-> agentId, slot |-> FreeSlot(agentId), pc |-> "getWallet",
     walletPublicKey |-> registry[agentId].walletPublicKey,
     strategy |-> registry[agentId].strategy,
     found |-> hasWallet(wallets, registry[agentId].walletPublicKey),
     fromToken |-> "none", amount |-> 0, balanceBefore |-> 0]

\* a guard that looks for the agent in the registry only
PassesIfRegistered(registry, agentId) == agentId \in DOMAIN registry

\* the guard of executeDecisionCycle: the agent exists and is active
PassesGuard(registry, agentId) ==
    agentId \in DOMAIN registry /\ registry[agentId].status = "active"

\* a decision loop that waits for the first timer firing
beginNoCycle(registry, agentId) == cycles

beginDecisionCycle(registry, agentId) ==
    IF PassesGuard(registry, agentId)
    THEN cycles \cup {NewCycle(registry, agentId)}
    ELSE cycles

(***************************************************************************)
(* AgentController.startAgent (with startDecisionLoop)                     *)
(***************************************************************************)
startedRegistry(agentId) ==
    logActivity([agents EXCEPT ![agentId].status = "active"], agentId,
                Activity(agentId, "started", "success", FALSE))

\* a decision loop that replaces the map of intervals by its own entry
startOnlyLoop(intervals, agentId) == {agentId}

startDecisionLoop(intervals, agentId) == intervals \cup {agentId}

\* the fields of the controller that startAgent and stopAgent read and write
Controller ==
    [agents |-> agents, activeAgentIds |-> activeAgentIds,
     decisionIntervals |-> decisionIntervals, cycles |-> cycles,
     appended |-> appended]

\* a call that swallows its error
ReturnedQuietly(s, error) == [error |-> "none"] @@ s

\* the controller after a call, with the error the call threw ("none" if it
\* returned normally)
Returned(s, error) == [error |-> error] @@ s

\* a startAgent without the already-active check
startAgentAgain(agentId) ==
    IF agentId \notin DOMAIN agents
    THEN Returned(Controller, "Agent not found")
    ELSE Returned(
             [agents |-> startedRegistry(agentId),
              activeAgentIds |-> SetAdd(activeAgentIds, agentId),
              decisionIntervals |->
                  startDecisionLoop(decisionIntervals, agentId),
              cycles |-> beginDecisionCycle(startedRegistry(agentId), agentId),
              appended |-> recordAppend(agents, agentId,
                               Activity(agentId, "started", "success", FALSE))],
             "none")

\* startAgent(agentId) called in the current state
startAgent(agentId) ==
    IF agentId \notin DOMAIN agents
    THEN Returned(Controller, "Agent not found")
    ELSE IF agents[agentId].status = "active"
    THEN Returned(Controller, "none")
    ELSE Returned(
             [agents |-> startedRegistry(agentId),
              activeAgentIds |-> SetAdd(activeAgentIds, agentId),
              decisionIntervals |->
                  startDecisionLoop(decisionIntervals, agentId),
              cycles |-> beginDecisionCycle(startedRegistry(agentId), agentId),
              appended |-> recordAppend(agents, agentId,
                               Activity(agentId, "started", "success", FALSE))],
             "none")

StartAgent(agentId) ==
    /\ agents' = startAgent(agentId).agents
    /\ activeAgentIds' = startAgent(agentId).activeAgentIds
    /\ decisionIntervals' = startAgent(agentId).decisionIntervals
    /\ cycles' = startAgent(agentId).cycles
    /\ appended' = startAgent(agentId).appended
    /\ UNCHANGED << wallets, nextId, deleting, stopAll, evals, outside >>

(***************************************************************************)
(* AgentController.stopAgent, as a state transformer shared by its callers *)
(***************************************************************************)
stopKnown(agentId) == agentId \in DOMAIN agents

\* a stopAgent that refuses an agent that is already stopped
stopAgentStrict(s, agentId) ==
    IF agentId \notin DOMAIN s.agents
    THEN Returned(s, "Agent not found")
    ELSE IF s.agents[agentId].status = "stopped"
    THEN Returned(s, "Agent already stopped")
    ELSE Returned(
             [agents |-> [s.agents EXCEPT ![agentId].status = "stopped"],
              activeAgentIds |-> Without(s.activeAgentIds, agentId),
              decisionIntervals |-> s.decisionIntervals \ {agentId},
              cycles |-> s.cycles,
              appended |-> s.appended],
             "none")

\* stopAgent(agentId) called when the controller is s
stopAgent(s, agentId) ==
    IF agentId \notin DOMAIN s.agents
    THEN Returned(s, "Agent not found")
    ELSE LET stopped == ActivityAt(s.appended, agentId, "stopped", "success",
                                   FALSE)
         IN  Returned(
                 [agents |->
                      logActivity([s.agents EXCEPT ![agentId].status = "stopped"],
                                  agentId, stopped),
                  activeAgentIds |-> Without(s.activeAgentIds, agentId),
                  decisionIntervals |-> s.decisionIntervals \ {agentId},
                  cycles |-> s.cycles,
                  appended |-> [s.appended EXCEPT ![agentId] = Append(@, stopped)]],
                 "none")

stopAgentEffect(agentId) ==
    /\ decisionIntervals' = stopAgent(Controller, agentId).decisionIntervals
    /\ activeAgentIds' = stopAgent(Controller, agentId).activeAgentIds
    /\ agents' = stopAgent(Controller, agentId).agents
    /\ appended' = stopAgent(Controller, agentId).appended

StopAgent(agentId) ==
    IF ~stopKnown(agentId)
    THEN UNCHANGED vars
    ELSE /\ stopAgentEffect(agentId)
         /\ UNCHANGED << wallets, nextId, cycles, deleting, stopAll, evals, outside >>

(***************************************************************************)
(* AgentController.deleteAgent: stopAgent, await, agents.delete            *)
(***************************************************************************)
removeAgent(registry, agentId) ==
    [x \in DOMAIN registry \ {agentId} |-> registry[x]]

DeleteAgent(agentId) ==
    IF agentId \in Range(activeAgentIds)
    THEN IF stopKnown(agentId)
         THEN /\ stopAgentEffect(agentId)
              /\ deleting' = deleting \cup {agentId}
              /\ UNCHANGED << wallets, nextId, cycles, stopAll, evals, outside >>
         ELSE UNCHANGED vars
    ELSE /\ agentId \in DOMAIN agents
         /\ agents' = removeAgent(agents, agentId)
         /\ appended' = removeAgent(appended, agentId)
         /\ evals' = removeAgent(evals, agentId)
         /\ UNCHANGED << activeAgentIds, decisionIntervals, wallets, nextId,
                         cycles, deleting, stopAll, outside >>

DeleteAgentResume(agentId) ==
    /\ agentId \in deleting
    /\ deleting' = deleting \ {agentId}
    /\ agents' = removeAgent(agents, agentId)
    /\ appended' = removeAgent(appended, agentId)
    /\ evals' = removeAgent(evals, agentId)
    /\ UNCHANGED << activeAgentIds, decisionIntervals, wallets, nextId,
                    cycles, stopAll, outside >>

(***************************************************************************)
(* AgentController.stopAllAgents: snapshot, then stopAgent + await each    *)
(***************************************************************************)
stopNext(ids) ==
    IF ids = <<>>
    THEN /\ stopAll' = [pc |-> "done", ids |-> <<>>]
         /\ UNCHANGED << agents, activeAgentIds, decisionIntervals, appended >>
    ELSE IF stopKnown(Head(ids))
    THEN /\ stopAgentEffect(Head(ids))
         /\ stopAll' = [pc |-> IF Tail(ids) = <<>> THEN "done" ELSE "running",
                        ids |-> Tail(ids)]
    ELSE /\ stopAll' = [pc |-> "failed", ids |-> Tail(ids)]
         /\ UNCHANGED << agents, activeAgentIds, decisionIntervals, appended >>

StopAllAgents ==
    /\ stopAll.pc # "running"
    /\ stopNext(activeAgentIds)
    /\ UNCHANGED << wallets, nextId, cycles, deleting, evals, outside >>

StopAllAgentsResume ==
    /\ stopAll.pc = "running"
    /\ stopNext(stopAll.ids)
    /\ UNCHANGED << wallets, nextId, cycles, deleting, evals, outside >>

(***************************************************************************)
(* The setInterval callback of startDecisionLoop                           *)
(***************************************************************************)
TimerFire(agentId) ==
    /\ agentId \in decisionIntervals
    /\ cycles' = beginDecisionCycle(agents, agentId)
    /\ UNCHANGED << agents, activeAgentIds, decisionIntervals, wallets, nextId,
                    deleting, stopAll, appended, evals, outside >>

(***************************************************************************)
(* executeDecisionCycle after each await.  A cycle that ends is removed    *)
(* from cycles; the activity it logs goes through logActivity.             *)
(***************************************************************************)
\* a catch block that swallows the failure without logging it
endCycleSilently(c, activity) ==
    /\ cycles' = cycles \ {c}
    /\ UNCHANGED << agents, appended >>

endCycle(c, activity) ==
    /\ cycles' = cycles \ {c}
    /\ agents' = logActivity(agents, c.agent, activity)
    /\ appended' = recordAppend(agents, c.agent, activity)

\* an await that never hands the cycle on
stayInCycle(c, next) == cycles' = cycles

moveCycle(c, next) == cycles' = (cycles \ {c}) \cup {next}

ErrorActivity(c) == Activity(c.agent, "error", "failure", FALSE)

TradeFailed(c) == Activity(c.agent, "trade", "failure", FALSE)

\* a successful trade logged without its signature
TradeSucceededUnsigned(c) == Activity(c.agent, "trade", "success", FALSE)

TradeSucceeded(c) == Activity(c.agent, "trade", "success", TRUE)

WaitActivity(c) == Activity(c.agent, "wait", "success", FALSE)

\* what the strategy saw and answered, kept for the last two cycles
Evaluation(strategy, price, walletBalance, action) ==
    [below |-> price < strategy.buyThreshold,
     funded |-> walletBalance >= strategy.minBalance,
     action |-> IF action.type = "trade" THEN action.action ELSE "wait"]

recordEvaluation(agentId, evaluation) ==
    IF agentId \in DOMAIN evals
    THEN [evals EXCEPT ![agentId] = LastN(Append(@, evaluation), 2)]
    ELSE evals

\* lines 170-226: wallet check, market tick, strategy, and the start of
\* executeTrade -> executeSwap -> getWalletBalance -> getWallet
CycleEvaluate(c) ==
    /\ c \in cycles /\ c.pc = "getWallet"
    /\ IF ~c.found
       THEN /\ endCycle(c, ErrorActivity(c))
            /\ UNCHANGED << evals >>
       ELSE \E price \in Prices :
            LET strategy == createStrategyInstance(c.strategy)
                walletBalance == wallets[c.walletPublicKey].balance
                action == evaluate(strategy, price, walletBalance)
            IN  /\ evals' = recordEvaluation(c.agent,
                       Evaluation(strategy, price, walletBalance, action))
                /\ IF action.type = "trade"
                   THEN /\ moveCycle(c, [c EXCEPT
                               !.pc = "getWalletBalance",
                               !.fromToken = IF action.action = "buy"
                                             THEN "SOL" ELSE "TOKEN",
                               !.amount = IF action.amount = 0
                                          THEN DefaultTradeAmount
                                          ELSE action.amount,
                               !.found = hasWallet(wallets, c.walletPublicKey)])
                        /\ UNCHANGED << agents, appended >>
                   ELSE endCycle(c, WaitActivity(c))
    /\ UNCHANGED << activeAgentIds, decisionIntervals, wallets, nextId,
                    deleting, stopAll, outside >>

\* DeFiClient.executeSwap line 90 resumes: balanceBefore is read; then
\* constructSwapInstruction -> validateAccounts -> getWallet
CycleGetWalletBalance(c) ==
    /\ c \in cycles /\ c.pc = "getWalletBalance"
    /\ moveCycle(c, [c EXCEPT
           !.pc = "validateAccounts",
           !.balanceBefore = getWalletBalance(wallets, c.walletPublicKey,
                                              c.found),
           !.found = hasWallet(wallets, c.walletPublicKey)])
    /\ UNCHANGED << agents, activeAgentIds, decisionIntervals, wallets, nextId,
                    deleting, stopAll, appended, evals, outside >>

\* validateAccounts resumes; a rejection unwinds to the cycle's inner catch
CycleValidateAccounts(c) ==
    /\ c \in cycles /\ c.pc = "validateAccounts"
    /\ IF validateAccounts(wallets, c.walletPublicKey, c.found, c.fromToken,
                           c.amount)
       THEN /\ moveCycle(c, [c EXCEPT !.pc = "getLatestBlockhash"])
            /\ UNCHANGED << agents, appended >>
       ELSE endCycle(c, TradeFailed(c))
    /\ UNCHANGED << activeAgentIds, decisionIntervals, wallets, nextId,
                    deleting, stopAll, evals, outside >>

\* getLatestBlockhash resolves or rejects; on success the ledger is written,
\* the trade is logged and updateWalletBalance calls getBalance
CycleSettle(c, blockhashOk) ==
    /\ c \in cycles /\ c.pc = "getLatestBlockhash"
    /\ wallets' = settleSwap(wallets, c.walletPublicKey, c.fromToken, c.amount,
                             c.balanceBefore, blockhashOk)
    /\ IF blockhashOk
       THEN /\ cycles' = (cycles \ {c}) \cup {[c EXCEPT !.pc = "getBalance"]}
            /\ agents' = logActivity(agents, c.agent, TradeSucceeded(c))
            /\ appended' = recordAppend(agents, c.agent, TradeSucceeded(c))
       ELSE endCycle(c, TradeFailed(c))
    /\ UNCHANGED << activeAgentIds, decisionIntervals, nextId, deleting,
                    stopAll, evals, outside >>

\* updateWalletBalance: getBalance resolves or rejects (rejection is swallowed)
CycleGetBalance(c, ok) ==
    /\ c \in cycles /\ c.pc = "getBalance"
    /\ IF ok
       THEN moveCycle(c, [c EXCEPT !.pc = "getTokenBalances"])
       ELSE cycles' = cycles \ {c}
    /\ UNCHANGED << agents, activeAgentIds, decisionIntervals, wallets, nextId,
                    deleting, stopAll, appended, evals, outside >>

\* updateWalletBalance: getTokenBalances resolves or rejects; on success the
\* fetched balance and token balances are written to the ledger
CycleGetTokenBalances(c, ok, balance, tokenBalances) ==
    /\ c \in cycles /\ c.pc = "getTokenBalances"
    /\ cycles' = cycles \ {c}
    /\ wallets' = IF ok
                  THEN updateTokenBalances(
                           updateBalance(wallets, c.walletPublicKey, balance),
                           c.walletPublicKey, tokenBalances)
                  ELSE wallets
    /\ UNCHANGED << agents, activeAgentIds, decisionIntervals, nextId,
                    deleting, stopAll, appended, evals, outside >>

(***************************************************************************)
(* WalletContext.refreshBalance and WalletManager.deleteWallet             *)
(***************************************************************************)
refreshBalance(publicKey, balance, tokenBalances) ==
    /\ publicKey \in DOMAIN wallets
    /\ wallets' = updateTokenBalances(
                      updateBalance(wallets, publicKey, balance),
                      publicKey, tokenBalances)
    /\ UNCHANGED << agents, activeAgentIds, decisionIntervals, nextId, cycles,
                    deleting, stopAll, appended, evals, outside >>

deleteWallet(publicKey) ==
    /\ hasWallet(wallets, publicKey)
    /\ wallets' = [wallets EXCEPT ![publicKey].present = FALSE]
    /\ UNCHANGED << agents, activeAgentIds, decisionIntervals, nextId, cycles,
                    deleting, stopAll, appended, evals, outside >>

(***************************************************************************)
(* A SimpleTraderStrategy instance that is constructed once and evaluated  *)
(* any number of times, so that lastAction takes all its values.           *)
(***************************************************************************)
NewTrader(parameters) ==
    /\ trader.instance = <<>>
    /\ trader' = [instance |-> << SimpleTraderStrategy(parameters) >>,
                  last |-> <<>>, trades |-> <<>>]
    /\ UNCHANGED << inside, modal, market >>

\* an instance that forgets the trade it has just returned
afterEvaluateForgetful(strategy, action) == strategy

\* the instance after evaluate has returned action: this.lastAction is
\* assigned when a buy or a sell is returned
afterEvaluate(strategy, action) ==
    [strategy EXCEPT !.lastAction = action.lastAction]

\* trader.last is the call and its result, trader.trades the last two trade
\* actions that the instance returned
TraderEvaluate(price, walletBalance) ==
    LET action == evaluate(trader.instance[1], price, walletBalance)
    IN  /\ trader.instance # <<>>
        /\ trader' =
              [instance |-> << afterEvaluate(trader.instance[1], action) >>,
               last |->
                   << [price |-> price, walletBalance |-> walletBalance,
                       lastAction |-> trader.instance[1].lastAction,
                       action |-> action] >>,
               trades |->
                   IF action.type = "trade"
                   THEN LastN(Append(trader.trades, action.action), 2)
                   ELSE trader.trades]
        /\ UNCHANGED << inside, modal, market >>

(***************************************************************************)
(* PrivateKeyModal.  The component stays mounted while its parent toggles  *)
(* the visible prop; modal.pressed records that the confirm button was     *)
(* pressed in the current showing.  The private key of wallet k is k.      *)
(***************************************************************************)
\* the parent shows the modal for a wallet
ShowModal(publicKey) ==
    /\ ~modal.visible
    /\ modal' = [modal EXCEPT !.visible = TRUE, !.publicKey = publicKey,
                               !.pressed = FALSE]
    /\ UNCHANGED << inside, trader, market >>

\* handleConfirm up to its await of keyStore.retrieveKey
handleConfirm ==
    /\ modal.visible /\ ~modal.confirmed
    /\ modal' = [modal EXCEPT !.retrieving = Append(@, modal.publicKey),
                               !.pressed = TRUE]
    /\ UNCHANGED << inside, trader, market >>

\* handleConfirm after the await: the key was found, was not found, or the
\* retrieval failed
RetrieveKeyResolve(i, outcome) ==
    /\ i \in 1..Len(modal.retrieving)
    /\ modal' = [modal EXCEPT
           !.retrieving = SubSeq(@, 1, i - 1) \o SubSeq(@, i + 1, Len(@)),
           !.privateKey = IF outcome = "found" THEN modal.retrieving[i] ELSE @,
           !.confirmed = IF outcome = "found" THEN TRUE ELSE @]
    /\ UNCHANGED << inside, trader, market >>

handleCopy ==
    /\ modal.visible /\ modal.confirmed
    /\ modal' = [modal EXCEPT
           !.clipboard = IF modal.privateKey # NoKey THEN modal.privateKey
                         ELSE @]
    /\ UNCHANGED << inside, trader, market >>

\* handleClose, with the onClose of the parent hiding the modal
handleClose ==
    /\ modal.visible
    /\ modal' = [modal EXCEPT !.privateKey = NoKey, !.confirmed = FALSE,
                               !.visible = FALSE, !.pressed = FALSE]
    /\ UNCHANGED << inside, trader, market >>

(***************************************************************************)
(* Specifications.                                                         *)
(***************************************************************************)
CanAppend(agentId, bound) ==
    agentId \in DOMAIN appended => Len(appended[agentId]) < bound

CanBegin(agentId, bound) == Cardinality(InFlight(agentId)) < bound

\* lifecycle calls, timers and cycles on wallets that are never funded
Next ==
    \/ nextId < MaxAgents /\ CreateAgent(DefaultParameters)
    \/ \E agentId \in Ids :
          /\ CanAppend(agentId, MaxAppended) /\ CanBegin(agentId, MaxInFlight)
          /\ StartAgent(agentId)
    \/ \E agentId \in Ids :
          CanAppend(agentId, MaxAppended) /\ StopAgent(agentId)
    \/ \E agentId \in Ids :
          CanAppend(agentId, MaxAppended) /\ DeleteAgent(agentId)
    \/ \E agentId \in Ids : DeleteAgentResume(agentId)
    \/ \E agentId \in Ids : CanBegin(agentId, MaxInFlight) /\ TimerFire(agentId)
    \/ StopAllAgents
    \/ StopAllAgentsResume
    \/ \E c \in cycles : CanAppend(c.agent, MaxAppended) /\ CycleEvaluate(c)

Spec == Init /\ [][Next]_vars

\* stopAllAgents racing with stopAgent and deleteAgent, three agents, cycles
\* left pending
NextStopAll ==
    \/ nextId < MaxAgentsStopAll /\ CreateAgent(DefaultParameters)
    \/ \E agentId \in Ids :
          /\ CanAppend(agentId, MaxAppendedStopAll)
          /\ CanBegin(agentId, MaxInFlight)
          /\ StartAgent(agentId)
    \/ \E agentId \in Ids :
          CanAppend(agentId, MaxAppendedStopAll) /\ StopAgent(agentId)
    \/ \E agentId \in Ids :
          CanAppend(agentId, MaxAppendedStopAll) /\ DeleteAgent(agentId)
    \/ \E agentId \in Ids : DeleteAgentResume(agentId)
    \/ StopAllAgents
    \/ StopAllAgentsResume

SpecStopAll == Init /\ [][NextStopAll]_vars

\* the steps of a decision cycle that trades
CycleSteps(bound) ==
    \/ \E c \in cycles : CanAppend(c.agent, bound) /\ CycleEvaluate(c)
    \/ \E c \in cycles : CycleGetWalletBalance(c)
    \/ \E c \in cycles : CanAppend(c.agent, bound) /\ CycleValidateAccounts(c)
    \/ \E c \in cycles, ok \in BOOLEAN :
          CanAppend(c.agent, bound) /\ CycleSettle(c, ok)
    \/ \E c \in cycles, ok \in BOOLEAN : CycleGetBalance(c, ok)
    \/ \E c \in cycles, ok \in BOOLEAN, balance \in ChainBalances,
          tokenBalances \in ChainTokens :
          CycleGetTokenBalances(c, ok, balance, tokenBalances)

\* one agent whose decision cycles trade, with balance refreshes and wallet
\* deletion
NextTrade ==
    \/ \E parameters \in StrategyConfigs :
          nextId = 0 /\ CreateAgent(parameters)
    \/ \E parameters \in StrategyConfigs :
          nextId = 0 /\ handleCreate(parameters)
    \/ \E agentId \in Ids :
          /\ CanAppend(agentId, MaxAppendedTrade)
          /\ CanBegin(agentId, MaxInFlightTrade)
          /\ StartAgent(agentId)
    \/ \E agentId \in Ids :
          CanAppend(agentId, MaxAppendedTrade) /\ StopAgent(agentId)
    \/ \E agentId \in Ids :
          CanAppend(agentId, MaxAppendedTrade) /\ DeleteAgent(agentId)
    \/ \E agentId \in Ids : DeleteAgentResume(agentId)
    \/ \E agentId \in Ids :
          CanBegin(agentId, MaxInFlightTrade) /\ TimerFire(agentId)
    \/ CycleSteps(MaxAppendedTrade)
    \/ \E publicKey \in DOMAIN wallets, balance \in ChainBalances,
          tokenBalances \in ChainTokens :
          refreshBalance(publicKey, balance, tokenBalances)
    \/ \E publicKey \in DOMAIN wallets : deleteWallet(publicKey)

SpecTrade == Init /\ [][NextTrade]_vars

\* several agents: the first is stopped or deleted at any time and has a
\* wallet that is funded or deleted, so that its cycles fail (missing wallet,
\* rejected swap, unsettled swap); the others are started and run beside it;
\* an agent is started when no cycle of it is in flight; token accounts
\* appear only through the refresh that follows a trade
FundedWallets == {1}

NextFailure ==
    \/ nextId < MaxAgentsFailure /\ CreateAgent(DefaultParameters)
    \/ \E agentId \in Ids :
          /\ CanAppend(agentId, MaxAppendedFailure)
          /\ InFlight(agentId) = {}
          /\ StartAgent(agentId)
    \/ \E agentId \in Ids \cap FundedWallets :
          CanAppend(agentId, MaxAppendedFailure) /\ StopAgent(agentId)
    \/ \E agentId \in Ids \cap FundedWallets :
          CanAppend(agentId, MaxAppendedFailure) /\ DeleteAgent(agentId)
    \/ \E agentId \in Ids : DeleteAgentResume(agentId)
    \/ CycleSteps(MaxAppendedFailure)
    \/ \E publicKey \in DOMAIN wallets \cap FundedWallets,
          balance \in ChainBalances :
          refreshBalance(publicKey, balance, <<>>)
    \/ \E publicKey \in DOMAIN wallets \cap FundedWallets :
          deleteWallet(publicKey)

SpecFailure == Init /\ [][NextFailure]_vars

\* one agent started and stopped in turn, each first cycle finishing before
\* the stop, until the activity log has overflowed
NextLog ==
    \/ nextId = 0 /\ CreateAgent(DefaultParameters)
    \/ \E agentId \in Ids :
          /\ CanAppend(agentId, MaxAppendedLog)
          /\ InFlight(agentId) = {}
          /\ StartAgent(agentId)
    \/ \E agentId \in Ids :
          /\ CanAppend(agentId, MaxAppendedLog)
          /\ InFlight(agentId) = {}
          /\ agents[agentId].status = "active"
          /\ StopAgent(agentId)
    \/ \E c \in cycles : CanAppend(c.agent, MaxAppendedLog) /\ CycleEvaluate(c)

SpecLog == Init /\ [][NextLog]_vars

\* the lifecycle calls on a small registry; a timer fires when the previous
\* cycle of its agent has finished, a restart may overlap a pending cycle
NextLifecycle ==
    \/ nextId < MaxAgentsLifecycle /\ CreateAgent(DefaultParameters)
    \/ \E agentId \in Ids :
          CanAppend(agentId, MaxAppendedLifecycle) /\ StartAgent(agentId)
    \/ \E agentId \in Ids :
          CanAppend(agentId, MaxAppendedLifecycle) /\ StopAgent(agentId)
    \/ \E agentId \in Ids :
          CanAppend(agentId, MaxAppendedLifecycle) /\ DeleteAgent(agentId)
    \/ \E agentId \in Ids : DeleteAgentResume(agentId)
    \/ \E agentId \in Ids : InFlight(agentId) = {} /\ TimerFire(agentId)
    \/ \E c \in cycles :
          CanAppend(c.agent, MaxAppendedLifecycle) /\ CycleEvaluate(c)

SpecLifecycle == Init /\ [][NextLifecycle]_vars

\* one agent whose cycles run one at a time through every step while it is
\* stopped, restarted or deleted, and while its wallet is refreshed or deleted
NextCycle ==
    \/ nextId = 0 /\ CreateAgent(DefaultParameters)
    \/ \E agentId \in Ids :
          /\ CanAppend(agentId, MaxAppendedCycle)
          /\ InFlight(agentId) = {}
          /\ StartAgent(agentId)
    \/ \E agentId \in Ids :
          CanAppend(agentId, MaxAppendedCycle) /\ StopAgent(agentId)
    \/ \E agentId \in Ids :
          CanAppend(agentId, MaxAppendedCycle) /\ DeleteAgent(agentId)
    \/ \E agentId \in Ids : DeleteAgentResume(agentId)
    \/ \E agentId \in Ids :
          InFlight(agentId) = {} /\ TimerFire(agentId)
    \/ CycleSteps(MaxAppendedCycle)
    \/ \E publicKey \in DOMAIN wallets, balance \in ChainBalances :
          refreshBalance(publicKey, balance, <<>>)
    \/ \E publicKey \in DOMAIN wallets : deleteWallet(publicKey)

SpecCycle == Init /\ [][NextCycle]_vars

\* a strategy instance evaluated on every price and balance in turn
NextStrategy ==
    \/ \E parameters \in StrategyConfigs : NewTrader(parameters)
    \/ \E price \in EvaluatedPrices, walletBalance \in EvaluatedBalances :
          TraderEvaluate(price, walletBalance)

SpecStrategy == Init /\ [][NextStrategy]_vars

\* the private-key modal shown, confirmed, copied from and closed, with key
\* retrievals that resolve at any later time
NextModal ==
    \/ \E publicKey \in ModalKeys : ShowModal(publicKey)
    \/ Len(modal.retrieving) < MaxRetrievals /\ handleConfirm
    \/ \E i \in 1..MaxRetrievals, outcome \in {"found", "missing", "failed"} :
          RetrieveKeyResolve(i, outcome)
    \/ handleCopy
    \/ handleClose

SpecModal == Init /\ [][NextModal]_vars

\* the activities that agent agentId can still log below a bound, counting
\* one for every cycle in flight that has not logged its result yet
Room(agentId, bound) ==
    IF agentId \in DOMAIN appended
    THEN bound - Len(appended[agentId])
           - Cardinality({c \in InFlight(agentId) :
                            c.pc \in {"getWallet", "getWalletBalance",
                                      "validateAccounts",
                                      "getLatestBlockhash"}})
    ELSE 0

\* the timers that fire when the previous cycle of their agent has finished
TimersFire ==
    \E agentId \in Ids :
        /\ InFlight(agentId) = {}
        /\ Room(agentId, MaxAppendedLive) >= 1
        /\ TimerFire(agentId)

\* one agent that is started and stopped at will while its timer fires and
\* its cycles run, one at a time; a call is made only if the log has room
\* for what it appends and for the result of the cycle in flight
NextLive ==
    \/ nextId = 0 /\ CreateAgent(DefaultParameters)
    \/ \E agentId \in Ids :
          /\ InFlight(agentId) = {}
          /\ Room(agentId, MaxAppendedLive) >= 2
          /\ StartAgent(agentId)
    \/ \E agentId \in Ids :
          Room(agentId, MaxAppendedLive) >= 1 /\ StopAgent(agentId)
    \/ TimersFire
    \/ CycleSteps(MaxAppendedLive)
    \/ \E publicKey \in DOMAIN wallets, balance \in ChainBalances :
          refreshBalance(publicKey, balance, <<>>)

\* timers fire fairly, and every external call that a cycle awaits returns
\* or fails; with one cycle in flight at a time, fairness of the steps of
\* the cycles is fairness of the steps of each
SpecLive ==
    /\ Init
    /\ [][NextLive]_vars
    /\ WF_vars(TimersFire)
    /\ WF_vars(CycleSteps(MaxAppendedLive))

\* the market data generator called again and again, with its volatility
\* set and its price reset in between
NextMarket ==
    \/ \E randTrend \in Randoms, randDuration \in Randoms, rand \in Randoms,
          randVolume \in Randoms :
          /\ market.calls < MaxTicks
          /\ GenerateNext(randTrend, randDuration, rand, randVolume)
    \/ \E volatility \in Volatilities : setVolatility(volatility)
    \/ reset

SpecMarket == Init /\ [][NextMarket]_vars

(***************************************************************************)
(* Properties.                                                             *)
(***************************************************************************)
IsActive(agentId) ==
    agentId \in DOMAIN agents /\ agents[agentId].status = "active"

\* C1: for every agent id, the agent is registered with status 'active' if
\* and only if a recurring decision timer is registered for that id.
C1_ActiveIffTimer ==
    \A agentId \in Ids : IsActive(agentId) <=> agentId \in decisionIntervals

\* C4: when stopAllAgents terminates, normally or by a failed stop, none of
\* the agents of its snapshot that it had not reached yet and that still
\* exist is left active or with a timer.
C4_StopAllContinuesOnError ==
    [][ (stopAll' # stopAll /\ stopAll'.pc \in {"done", "failed"})
        => \A agentId \in Range(stopAll'.ids) :
              agentId \in DOMAIN agents'
              => /\ agents'[agentId].status = "stopped"
                 /\ agentId \notin decisionIntervals' ]_vars

\* C5: at most one decision cycle of an agent is past its active-status
\* guard and not yet finished.
C5_OneCycleInFlight ==
    \A agentId \in Ids : Cardinality(InFlight(agentId)) <= 1

getAgent(agentId) ==
    IF agentId \in DOMAIN agents THEN agents[agentId] ELSE "null"

\* C10: an id whose deleteAgent has completed is absent from the registry
\* and the active set, has no timer, and getAgent reports not-found.
C10_DeletedLeavesNothing ==
    \A agentId \in Ids :
        (agentId \notin DOMAIN agents /\ agentId \notin deleting)
        => /\ getAgent(agentId) = "null"
           /\ agentId \notin Range(activeAgentIds)
           /\ agentId \notin decisionIntervals

\* C2: the ledger balance of every wallet is never negative.
C2_BalanceNonNegative ==
    \A publicKey \in DOMAIN wallets : wallets[publicKey].balance >= 0

\* C3: two consecutive decision cycles of an agent that both see a price
\* below buyThreshold with a balance of at least minBalance never both buy.
C3_BuyDebounced ==
    \A agentId \in DOMAIN evals :
        Len(evals[agentId]) = 2
        => ~ /\ evals[agentId][1].below /\ evals[agentId][1].funded
             /\ evals[agentId][2].below /\ evals[agentId][2].funded
             /\ evals[agentId][1].action = "buy"
             /\ evals[agentId][2].action = "buy"

\* C6: no agent is ever registered with buyThreshold >= sellThreshold.
C6_InvertedThresholdsRejected ==
    \A agentId \in DOMAIN agents :
        agents[agentId].strategy.buyThreshold
            < agents[agentId].strategy.sellThreshold

\* C7: the activity log of every agent is the last min(n, 100) of the n
\* activities ever appended for it, in append order.
C7_LogIsLastHundred ==
    \A agentId \in DOMAIN agents :
        /\ Len(agents[agentId].activityLog) <= 100
        /\ Len(agents[agentId].activityLog) = Min(Len(appended[agentId]), 100)
        /\ \A i \in 1..Len(agents[agentId].activityLog) :
              agents[agentId].activityLog[i]
                  = appended[agentId][Len(appended[agentId])
                        - Len(agents[agentId].activityLog) + i]

C7_LogOverflowed ==
    \E agentId \in DOMAIN agents :
        /\ Len(appended[agentId]) > 100
        /\ Len(agents[agentId].activityLog) = 100
        /\ agents[agentId].activityLog[1].timestamp > 1

\* a step in which decision cycle c ends inside executeSwap, that is, the
\* swap was rejected by validateAccounts or getLatestBlockhash failed
SwapPcs == {"getWalletBalance", "validateAccounts", "getLatestBlockhash"}

SwapFailsIn(c) ==
    /\ c.pc \in {"validateAccounts", "getLatestBlockhash"}
    /\ cycles' = cycles \ {c}

\* a step of executeSwap that is not its successful settlement
SwapStepWithoutSettlement(c) ==
    /\ c.pc \in SwapPcs
    /\ c \notin cycles'
    /\ [c EXCEPT !.pc = "getBalance"] \notin cycles'

\* C9: no step of an executeSwap other than its successful settlement, and
\* so no step of a failing executeSwap, writes the wallet ledger.
C9_FailedSwapWritesNothing ==
    [][ \A c \in cycles : SwapStepWithoutSettlement(c) => wallets' = wallets ]_vars

LastActivity(agentId) ==
    agents[agentId].activityLog[Len(agents[agentId].activityLog)]

C9_SwapFailedOnFundedWallet ==
    \E agentId \in DOMAIN agents :
        /\ LastActivity(agentId).action = "trade"
        /\ LastActivity(agentId).result = "failure"
        /\ wallets[agents[agentId].walletPublicKey].balance > 0

\* a step in which decision cycle c ends in failure
CycleFailsIn(c) ==
    \/ c.pc = "getWallet" /\ ~c.found /\ cycles' = cycles \ {c}
    \/ SwapFailsIn(c)

OthersUntouched(agentId) ==
    /\ \A other \in DOMAIN agents \ {agentId} :
          other \in DOMAIN agents' /\ agents'[other] = agents[other]
    /\ decisionIntervals' \ {agentId} = decisionIntervals \ {agentId}

RefreshStepOf(c) ==
    /\ c.pc \in {"getBalance", "getTokenBalances"}
    /\ c \notin cycles'

C11_StartActiveIsNoOp ==
    \A agentId \in DOMAIN agents :
        agents[agentId].status = "active"
        => startAgent(agentId) = [error |-> "none"] @@ Controller

C11_ActiveAfterFirstCycle ==
    \E agentId \in DOMAIN agents :
        /\ agents[agentId].status = "active"
        /\ agentId \in decisionIntervals
        /\ Len(agents[agentId].activityLog) >= 3
        /\ LastActivity(agentId).action = "wait"
        /\ startAgent(agentId).error = "none"

\* C12: the step in which startAgent activates a stopped agent appends the
\* 'started' activity and leaves exactly one new decision cycle of that agent
\* suspended at its first await, before it has logged anything.
C12_FirstCycleBeginsAtStart ==
    [][ \A agentId \in DOMAIN agents :
          ( /\ agents[agentId].status = "stopped"
            /\ agentId \in DOMAIN agents'
            /\ agents'[agentId].status = "active" )
          => /\ Cardinality(cycles' \ cycles) = 1
             /\ \A c \in cycles' \ cycles :
                   c.agent = agentId /\ c.pc = "getWallet"
             /\ cycles \subseteq cycles'
             /\ Len(appended'[agentId]) = Len(appended[agentId]) + 1
             /\ agents'[agentId].activityLog
                  = LastN(Append(agents[agentId].activityLog,
                        [timestamp |-> Len(appended'[agentId]),
                         action |-> "started", result |-> "success",
                         transactionSignature |-> FALSE]), 100) ]_vars

C12_StartedWithCyclePending ==
    \E agentId \in DOMAIN agents :
        /\ agents[agentId].status = "active"
        /\ LastActivity(agentId).action = "started"
        /\ \E c \in InFlight(agentId) : c.pc = "getWallet"

\* C13: stopAgent on a registered agent never throws and leaves it stopped
\* without a timer; on an agent that is already stopped it cancels no timer
\* and changes neither the active set nor any status; a second stopAgent
\* leaves the statuses, the timers and the active set as the first left them.
C13_StopIsIdempotent ==
    \A agentId \in DOMAIN agents :
        LET once == stopAgent(Controller, agentId)
            twice == stopAgent(once, agentId)
            statusOf(s) == [x \in DOMAIN s.agents |-> s.agents[x].status]
        IN  /\ once.error = "none"
            /\ twice.error = "none"
            /\ once.agents[agentId].status = "stopped"
            /\ agentId \notin once.decisionIntervals
            /\ statusOf(twice) = statusOf(once)
            /\ twice.decisionIntervals = once.decisionIntervals
            /\ twice.activeAgentIds = once.activeAgentIds
            /\ agents[agentId].status = "stopped"
               => /\ once.decisionIntervals = decisionIntervals
                  /\ once.activeAgentIds = activeAgentIds
                  /\ statusOf(once) = statusOf(Controller)

C13_StoppedTwiceInARow ==
    \E agentId \in DOMAIN agents :
        /\ agents[agentId].status = "stopped"
        /\ Len(agents[agentId].activityLog) >= 3
        /\ LastActivity(agentId).action = "stopped"
        /\ agents[agentId].activityLog[
               Len(agents[agentId].activityLog) - 1].action = "stopped"

\* C14: startAgent and stopAgent with an id that is not in the registry throw
\* 'Agent not found' and leave the registry, the active set, the timers, the
\* cycles and the logs unchanged.
C14_UnknownIdIsNotFound ==
    \A agentId \in (Ids \cup {nextId + 1}) \ DOMAIN agents :
        /\ startAgent(agentId) = [error |-> "Agent not found"] @@ Controller
        /\ stopAgent(Controller, agentId)
             = [error |-> "Agent not found"] @@ Controller

C14_CalledOnDeletedId ==
    \E agentId \in Ids \ DOMAIN agents :
        /\ agentId \notin deleting
        /\ startAgent(agentId).error = "Agent not found"
        /\ stopAgent(Controller, agentId).error = "Agent not found"

\* C15: a createAgent step adds exactly one agent, under an id that was
\* never issued before, with status 'stopped', a log that consists of one
\* 'created' success activity, no timer and no entry in the active set; its
\* walletPublicKey names a wallet that did not exist before, has balance 0
\* and is referenced by no other agent; all other agents and wallets are
\* left as they were.
C15_CreatedAgentIsFresh ==
    [][ nextId' # nextId
        => \E agentId \in DOMAIN agents' \ DOMAIN agents :
             /\ DOMAIN agents' = DOMAIN agents \cup {agentId}
             /\ agentId \notin Ids
             /\ agents'[agentId].id = agentId
             /\ agents'[agentId].status = "stopped"
             /\ agents'[agentId].activityLog
                  = << [timestamp |-> 1, action |-> "created",
                        result |-> "success", transactionSignature |-> FALSE] >>
             /\ agentId \notin decisionIntervals'
             /\ agentId \notin Range(activeAgentIds')
             /\ agents'[agentId].walletPublicKey \notin DOMAIN wallets
             /\ DOMAIN wallets'
                  = DOMAIN wallets \cup {agents'[agentId].walletPublicKey}
             /\ wallets'[agents'[agentId].walletPublicKey]
                  = [present |-> TRUE, balance |-> 0, tokenBalances |-> <<>>]
             /\ \A other \in DOMAIN agents :
                   /\ agents'[other] = agents[other]
                   /\ agents'[other].walletPublicKey
                        # agents'[agentId].walletPublicKey
             /\ \A publicKey \in DOMAIN wallets :
                   wallets'[publicKey] = wallets[publicKey] ]_vars

C15_CreatedBesideFundedAgent ==
    \E agentId \in DOMAIN agents, other \in DOMAIN agents :
        /\ agentId # other
        /\ Len(appended[agentId]) = 1
        /\ agents[agentId].status = "stopped"
        /\ wallets[agents[agentId].walletPublicKey].balance = 0
        /\ agents[other].status = "active"
        /\ wallets[agents[other].walletPublicKey].balance > 0

\* C16: every evaluation returns what the cascade prescribes: wait for
\* insufficient balance, with the last action unchanged, when the balance is
\* below minBalance; else a buy of min(10% of the balance, 0.5 SOL) when the
\* price is below buyThreshold and the last action is not buy; else a sell
\* of 0.1 SOL when the price is above sellThreshold and the last action is
\* not sell; else wait.
C16_EvaluateFollowsCascade ==
    \A i \in 1..Len(trader.last) :
        LET e == trader.last[i]
            strategy == trader.instance[1]
            funded == e.walletBalance >= strategy.minBalance
            buys == /\ funded
                    /\ e.price < strategy.buyThreshold
                    /\ e.lastAction # "buy"
            sells == /\ funded
                     /\ ~buys
                     /\ e.price > strategy.sellThreshold
                     /\ e.lastAction # "sell"
        IN  /\ ~funded
               => /\ e.action.type = "wait"
                  /\ e.action.reason = "Insufficient balance"
                  /\ strategy.lastAction = e.lastAction
            /\ buys
               => /\ e.action.type = "trade" /\ e.action.action = "buy"
                  /\ IF e.walletBalance <= 5000000
                     THEN 10 * e.action.amount = e.walletBalance
                     ELSE e.action.amount = 500000
                  /\ strategy.lastAction = "buy"
            /\ sells
               => /\ e.action.type = "trade" /\ e.action.action = "sell"
                  /\ e.action.amount = 100000
                  /\ strategy.lastAction = "sell"
            /\ (funded /\ ~buys /\ ~sells)
               => /\ e.action.type = "wait"
                  /\ e.action.reason # "Insufficient balance"
                  /\ strategy.lastAction = e.lastAction

\* a price below buyThreshold and above sellThreshold at once, on a funded
\* wallet: the buy fired, and so did the sell on the same price afterwards
C16_BuyThenSellOnSamePrice ==
    /\ trader.last # <<>>
    /\ trader.last[1].price < trader.instance[1].buyThreshold
    /\ trader.last[1].price > trader.instance[1].sellThreshold
    /\ trader.last[1].lastAction = "buy"
    /\ trader.last[1].action.action = "sell"

\* C18: a buy proposed by the strategy leaves at least minBalance in the
\* wallet it was evaluated on.
C18_BuyKeepsMinBalance ==
    \A i \in 1..Len(trader.last) :
        trader.last[i].action.action = "buy"
        => trader.last[i].walletBalance - trader.last[i].action.amount
             >= trader.instance[1].minBalance

\* C17: the walletPublicKey of every active agent is the key of a wallet
\* that is in the ledger.
C17_ActiveAgentHasWallet ==
    \A agentId \in DOMAIN agents :
        agents[agentId].status = "active"
        => hasWallet(wallets, agents[agentId].walletPublicKey)

\* the agents whose registry entry, timer or membership of the active set
\* differs between the two states of a step
ChangedAgents ==
    {agentId \in DOMAIN agents \cup DOMAIN agents' :
        \/ agentId \notin DOMAIN agents
        \/ agentId \notin DOMAIN agents'
        \/ agents'[agentId] # agents[agentId]
        \/ (agentId \in decisionIntervals') # (agentId \in decisionIntervals)
        \/ (agentId \in Range(activeAgentIds'))
             # (agentId \in Range(activeAgentIds))}

\* the decision cycles that began, moved or ended in a step
SteppedCycles == (cycles \ cycles') \cup (cycles' \ cycles)

ChangedWallets ==
    {publicKey \in DOMAIN wallets \cup DOMAIN wallets' :
        \/ publicKey \notin DOMAIN wallets
        \/ wallets'[publicKey] # wallets[publicKey]}

\* the wallet keys that belong to agent agentId in a step
OwnWallets(agentId) ==
    {agents[a].walletPublicKey : a \in DOMAIN agents \cap {agentId}}
    \cup {agents'[a].walletPublicKey : a \in DOMAIN agents' \cap {agentId}}
    \cup {c.walletPublicKey : c \in {x \in SteppedCycles : x.agent = agentId}}

C20_KeyOnlyAfterConfirm ==
    (modal.privateKey # NoKey \/ modal.confirmed)
    => (modal.visible /\ modal.pressed)

\* C21: executeDecisionCycle called for an agent that is not in the registry
\* or is not active leaves the cycles in flight as they are, so that nothing
\* of a cycle (tick, evaluation, trade, ledger write, activity) follows from
\* it.
C21_InactiveCycleIsSkipped ==
    \A agentId \in Ids \cup {nextId + 1} :
        ~IsActive(agentId) => beginDecisionCycle(agents, agentId) = cycles

\* the timer of an agent that was deleted is still registered and fires
C21_TimerOfDeletedAgent ==
    \E agentId \in decisionIntervals :
        /\ agentId \notin DOMAIN agents
        /\ ENABLED TimerFire(agentId)
        /\ beginDecisionCycle(agents, agentId) = cycles

\* the part of a decision cycle that comes before its result is logged
PreResultPcs ==
    {"getWallet", "getWalletBalance", "validateAccounts", "getLatestBlockhash"}

\* a step taken by decision cycle c, and the activation it continues as
StepOf(c) == c \in cycles /\ c \notin cycles'

Successors(c) ==
    {d \in cycles' \ cycles : d.agent = c.agent /\ d.slot = c.slot}

\* the step in which decision cycle c reaches its result: it ends, or it goes
\* on to the balance refresh that follows a settled trade
ResultStepOf(c) ==
    /\ StepOf(c)
    /\ c.pc \in PreResultPcs
    /\ \A d \in Successors(c) : d.pc \notin PreResultPcs

\* the log of an agent after a step is its log before with one more activity
\* of a decision cycle
LoggedResult(agentId) ==
    /\ agentId \in DOMAIN agents'
    /\ agents'[agentId].activityLog # <<>>
    /\ LET logged == agents'[agentId].activityLog[
                          Len(agents'[agentId].activityLog)]
       IN  /\ logged.action \in {"wait", "trade", "error"}
           /\ agents'[agentId].activityLog
                = LastN(Append(agents[agentId].activityLog, logged), 100)
    /\ Len(appended'[agentId]) = Len(appended[agentId]) + 1

\* C22: the step in which stopAgent stops an active agent removes its timer
\* and leaves every cycle in flight where it is; a cycle leaves the set of
\* cycles in flight only by a step of its own, which changes no status and
\* no timer; and the step in which a cycle of a stopped agent that is still
\* registered reaches its result appends that result to the log.
C22_StopDoesNotInterruptCycle ==
    [][ /\ \A agentId \in DOMAIN agents \cap DOMAIN agents' :
              (agents[agentId].status = "active"
                 /\ agents'[agentId].status = "stopped")
              => /\ agentId \notin decisionIntervals'
                 /\ cycles' = cycles
        /\ \A c \in cycles :
              /\ StepOf(c)
                 => /\ decisionIntervals' = decisionIntervals
                    /\ DOMAIN agents' = DOMAIN agents
                    /\ \A agentId \in DOMAIN agents :
                          agents'[agentId].status = agents[agentId].status
                    /\ c.pc = "getWalletBalance" => Successors(c) # {}
              /\ ( /\ ResultStepOf(c)
                   /\ c.agent \in DOMAIN agents
                   /\ agents[c.agent].status = "stopped" )
                 => LoggedResult(c.agent) ]_vars

\* the agent was stopped while its cycle was trading, and the settled trade
\* was logged after the 'stopped' entry
C22_TradeLoggedAfterStopped ==
    \E agentId \in DOMAIN agents :
        /\ agents[agentId].status = "stopped"
        /\ agentId \notin decisionIntervals
        /\ Len(agents[agentId].activityLog) >= 2
        /\ LastActivity(agentId).action = "trade"
        /\ LastActivity(agentId).transactionSignature
        /\ agents[agentId].activityLog[
               Len(agents[agentId].activityLog) - 1].action = "stopped"

\* the step in which the executeSwap of decision cycle c settles
SettledBy(c) ==
    /\ c \in cycles
    /\ c.pc = "getLatestBlockhash"
    /\ [c EXCEPT !.pc = "getBalance"] \in cycles'

\* C23: the settlement of a buy leaves the ledger balance of the wallet at
\* its value just before the settlement minus the swap amount; the settlement
\* of a sell leaves it as it was.
C23_BuyIsReflectedInLedger ==
    [][ \A c \in cycles :
          (SettledBy(c) /\ hasWallet(wallets, c.walletPublicKey))
          => wallets'[c.walletPublicKey].balance
               = IF c.fromToken = "SOL"
                 THEN wallets[c.walletPublicKey].balance - c.amount
                 ELSE wallets[c.walletPublicKey].balance ]_vars

\* the order of the awaits of a decision cycle
Rank(pc) ==
    CASE pc = "getWallet" -> 1
      [] pc = "getWalletBalance" -> 2
      [] pc = "validateAccounts" -> 3
      [] pc = "getLatestBlockhash" -> 4
      [] pc = "getBalance" -> 5
      [] pc = "getTokenBalances" -> 6

\* the activity that the step of cycle c at its result must have logged
ExpectedResult(c) ==
    IF c.pc = "getWallet"
    THEN IF c.found
         THEN [action |-> "wait", result |-> "success", signed |-> FALSE]
         ELSE [action |-> "error", result |-> "failure", signed |-> FALSE]
    ELSE IF SettledBy(c)
    THEN [action |-> "trade", result |-> "success", signed |-> TRUE]
    ELSE [action |-> "trade", result |-> "failure", signed |-> FALSE]

\* C24: a decision cycle moves forward through its awaits; of its steps,
\* the one that reaches the result appends exactly one activity to the log of
\* its agent if the agent is registered (a signed success for a settled
\* trade, an unsigned failure for a failed trade or a missing wallet, an
\* unsigned success for a wait) and every other step appends nothing; a
\* cycle that waits ends with that step and writes no wallet.
C24_OneActivityPerCycle ==
    [][ \A c \in cycles : StepOf(c) =>
          /\ Cardinality(Successors(c)) <= 1
          /\ \A d \in Successors(c) : Rank(d.pc) = Rank(c.pc) + 1
          /\ IF ResultStepOf(c) /\ c.agent \in DOMAIN agents
             THEN /\ LoggedResult(c.agent)
                  /\ LET logged == agents'[c.agent].activityLog[
                                        Len(agents'[c.agent].activityLog)]
                     IN  /\ logged.action = ExpectedResult(c).action
                         /\ logged.result = ExpectedResult(c).result
                         /\ logged.transactionSignature
                              = ExpectedResult(c).signed
                         /\ logged.transactionSignature <=> SettledBy(c)
             ELSE agents' = agents /\ appended' = appended
          /\ (c.pc = "getWallet" /\ Successors(c) = {}) => wallets' = wallets
          /\ wallets' # wallets => Rank(c.pc) \in {4, 6} ]_vars

\* a trade that failed, then the next cycle settled its trade, logged it with
\* its signature and finished its balance refresh
C24_SettledAfterFailedTrade ==
    \E agentId \in DOMAIN agents :
        /\ InFlight(agentId) = {}
        /\ Len(agents[agentId].activityLog) >= 2
        /\ LastActivity(agentId).action = "trade"
        /\ LastActivity(agentId).result = "success"
        /\ LastActivity(agentId).transactionSignature
        /\ agents[agentId].activityLog[
               Len(agents[agentId].activityLog) - 1].result = "failure"

\* C25: of the trade actions that one strategy instance returns, no two in
\* a row are the same, whatever was evaluated in between.
C25_TradesAlternate ==
    Len(trader.trades) = 2 => trader.trades[1] # trader.trades[2]

\* after a sell and a buy the instance waits on a price below buyThreshold
\* with a sufficient balance
C25_WaitsBetweenBuyAndSell ==
    /\ trader.trades = << "sell", "buy" >>
    /\ trader.last[1].action.type = "wait"
    /\ trader.last[1].price < trader.instance[1].buyThreshold
    /\ trader.last[1].walletBalance >= trader.instance[1].minBalance

\* C26: for every agent whose stored parameters the creation form accepts,
\* the strategy instance that a decision cycle builds from them has the
\* stored buyThreshold, sellThreshold and minBalance.
C26_ConfiguredParametersUsed ==
    \A agentId \in DOMAIN agents :
        LET parameters == agents[agentId].strategy
            strategy == createStrategyInstance(parameters)
        IN  ( /\ parameters.buyThreshold < parameters.sellThreshold
              /\ parameters.minBalance >= 0 )
            => /\ strategy.buyThreshold = parameters.buyThreshold
               /\ strategy.sellThreshold = parameters.sellThreshold
               /\ strategy.minBalance = parameters.minBalance

\* C27: the current price of the generator is within [50, 150], and the
\* tick that generateNext returned has a price within [50, 150], a volume
\* within [1000, 10000) and a trend that is up, down or sideways.
C27_TicksWithinBounds ==
    /\ market.currentPrice >= 50000
    /\ market.currentPrice <= 150000
    /\ \A i \in 1..Len(market.tick) :
          /\ market.tick[i].price >= 5000
          /\ market.tick[i].price <= 15000
          /\ market.tick[i].volume >= 1000
          /\ market.tick[i].volume < 10000
          /\ market.tick[i].trend \in {"up", "down", "sideways"}

\* the price fell to the lower bound in a downward trend
C27_PriceAtLowerBound ==
    /\ market.tick # <<>>
    /\ market.tick[1].price = 5000
    /\ market.tick[1].trend = "down"
    /\ market.currentPrice = 50000

\* some decision cycle of agent agentId is in flight
Busy(agentId) == InFlight(agentId) # {}

\* agent agentId has logged n activities and is able to log another
ActiveAt(agentId, n) ==
    /\ IsActive(agentId)
    /\ Len(appended[agentId]) = n
    /\ \/ Room(agentId, MaxAppendedLive) >= 1
       \/ \E c \in InFlight(agentId) : c.pc \in PreResultPcs

\* C28: every decision cycle that is in flight ends, and an agent that is
\* active with n activities logged is later stopped or has more than n.
C28_CyclesEndAndActiveAgentLogs ==
    /\ \A agentId \in {1} : Busy(agentId) ~> ~Busy(agentId)
    /\ \A agentId \in {1}, n \in 0..(MaxAppendedLive - 1) :
          ActiveAt(agentId, n)
            ~> (~IsActive(agentId) \/ Len(appended[agentId]) > n)

\* the agent has stayed active through two cycles started by its timer
C28_SecondTimerCycleLogged ==
    /\ IsActive(1)
    /\ ~Busy(1)
    /\ Len(appended[1]) = 5
    /\ \A i \in 3..5 : appended[1][i].action \in {"wait", "trade"}

\* the 'started' and 'stopped' entries among all activities of an agent
LifecycleEntries(agentId) ==
    SelectSeq(appended[agentId],
              LAMBDA activity : activity.action \in {"started", "stopped"})

\* C29: the activities ever appended for an agent begin with its one
\* 'created' entry, and its 'started' and 'stopped' entries alternate,
\* beginning with 'started'.
C29_LifecycleEntriesAlternate ==
    \A agentId \in DOMAIN appended :
        /\ appended[agentId][1].action = "created"
        /\ \A i \in 2..Len(appended[agentId]) :
              appended[agentId][i].action # "created"
        /\ \A i \in 1..Len(LifecycleEntries(agentId)) :
              LifecycleEntries(agentId)[i].action
                = IF i % 2 = 1 THEN "started" ELSE "stopped"

\* the registry, the ledger, the histories, the timers and the active set
Registered ==
    [nextId |-> nextId, wallets |-> wallets, agents |-> agents,
     appended |-> appended, evals |-> evals,
     activeAgentIds |-> activeAgentIds,
     decisionIntervals |-> decisionIntervals]

\* C30: when the key store rejects the key, createWallet throws and leaves
\* the ledger as it was, and createAgent throws that error and leaves the
\* registry, the ledger, the logs, the timers and the active set as they
\* were.
C30_FailedCreationChangesNothing ==
    /\ createWallet(wallets, nextId + 1, FALSE)
         = [error |-> "Failed to store key", wallets |-> wallets]
    /\ \A parameters \in StrategyConfigs :
          createAgent(parameters, FALSE)
            = [error |-> "Failed to store key"] @@ Registered

\* the key store rejects the key of a second agent while the first one is
\* active on a funded wallet
C30_RejectedBesideActiveAgent ==
    /\ nextId = 1
    /\ IsActive(1)
    /\ 1 \in decisionIntervals
    /\ wallets[1].balance > 0
    /\ createAgent(DefaultParameters, FALSE).error = "Failed to store key"
    /\ ENABLED CreateAgent(DefaultParameters)

====
